---- MODULE Spec2Model ----
(***************************************************************************)
(* Model of examples/ice-vpn.py: the websocket signaling handshake          *)
(* (SimpleWebsocketSignaling), the offer/answer orchestrators, the JSON     *)
(* descriptor codec and the tun relay loop (tun_start).                     *)
(*                                                                          *)
(* A text message is a sequence of atoms; an atom is a string standing for  *)
(* one character or for a run of ordinary characters ("HELLO", "c1").       *)
(* A Python value is a record [t, s, l, d]: t is its type tag, s the        *)
(* characters of a str, l the items of a list, d the (key, value) pairs of  *)
(* a dict in insertion order.                                               *)
(***************************************************************************)
EXTENDS Integers, Sequences, FiniteSets, TLC

\* ------------------------------------------------------------------ bounds
MaxStrLen == 2
MaxCands == 2

\* ------------------------------------------------------------ Python values
PyStr(s) == [t |-> "str", s |-> s, l |-> <<>>, d |-> <<>>]
PyList(l) == [t |-> "list", s |-> <<>>, l |-> l, d |-> <<>>]
PyDict(d) == [t |-> "dict", s |-> <<>>, l |-> <<>>, d |-> d]
PyNone == [t |-> "null", s |-> <<>>, l |-> <<>>, d |-> <<>>]

\* dict[key] = val: an existing key keeps its place and takes the new value
RECURSIVE DictSet(_, _, _)
DictSet(d, key, val) ==
    IF d = <<>> THEN << <<key, val>> >>
    ELSE IF Head(d)[1] = key THEN << <<key, val>> >> \o Tail(d)
    ELSE << Head(d) >> \o DictSet(Tail(d), key, val)

DictHas(d, key) == \E i \in DOMAIN d : d[i][1] = key

DictGet(d, key) == d[CHOOSE i \in DOMAIN d : d[i][1] = key][2]

\* --------------------------------------------------- json.dumps (encoder)
EscapeCharQuoteOnly(c) ==
    IF c = "\"" THEN <<"\\", "\"">>
    ELSE IF c = "\n" THEN <<"\\", "n">>
    ELSE <<c>>

\* the escape json.dumps writes for one character of a str
EscapeChar(c) ==
    IF c = "\"" THEN <<"\\", "\"">>
    ELSE IF c = "\\" THEN <<"\\", "\\">>
    ELSE IF c = "\n" THEN <<"\\", "n">>
    ELSE <<c>>

RECURSIVE EscapeChars(_)
EscapeChars(s) ==
    IF s = <<>> THEN <<>> ELSE EscapeChar(Head(s)) \o EscapeChars(Tail(s))

EncodeStr(s) == <<"\"">> \o EscapeChars(s) \o <<"\"">>

RECURSIVE EncodeValue(_), EncodeItems(_), EncodePairs(_)
EncodeValue(v) ==
    IF v.t = "str" THEN EncodeStr(v.s)
    ELSE IF v.t = "list" THEN <<"[">> \o EncodeItems(v.l) \o <<"]">>
    ELSE IF v.t = "dict" THEN <<"{">> \o EncodePairs(v.d) \o <<"}">>
    ELSE <<"null">>

EncodeItems(l) ==
    IF l = <<>> THEN <<>>
    ELSE IF Len(l) = 1 THEN EncodeValue(l[1])
    ELSE EncodeValue(l[1]) \o <<",", " ">> \o EncodeItems(Tail(l))

EncodePairs(d) ==
    IF d = <<>> THEN <<>>
    ELSE LET one == EncodeStr(d[1][1]) \o <<":", " ">> \o EncodeValue(d[1][2])
         IN  IF Len(d) = 1 THEN one
             ELSE one \o <<",", " ">> \o EncodePairs(Tail(d))

object_to_string(descr) == EncodeValue(descr)

\* --------------------------------------------------- json.loads (decoder)
ParseFail == [ok |-> FALSE, val |-> PyNone, next |-> 0]

ParseOk(v, n) == [ok |-> TRUE, val |-> v, next |-> n]

RECURSIVE SkipWs(_, _)
SkipWs(t, i) == IF i <= Len(t) /\ t[i] = " " THEN SkipWs(t, i + 1) ELSE i

\* the character an escape sequence \c stands for; "" when \c is no escape
Unescape(c) ==
    IF c = "\"" THEN "\""
    ELSE IF c = "\\" THEN "\\"
    ELSE IF c = "n" THEN "\n"
    ELSE ""

\* scans a string body from position i (after the opening quote) to the closing quote
RECURSIVE ScanStr(_, _, _)
ScanStr(t, i, acc) ==
    IF i > Len(t) THEN ParseFail
    ELSE IF t[i] = "\"" THEN ParseOk(PyStr(acc), i + 1)
    ELSE IF t[i] = "\\" THEN
        IF i + 1 > Len(t) \/ Unescape(t[i + 1]) = "" THEN ParseFail
        ELSE ScanStr(t, i + 2, Append(acc, Unescape(t[i + 1])))
    ELSE IF t[i] = "\n" THEN ParseFail
    ELSE ScanStr(t, i + 1, Append(acc, t[i]))

\* Op applied to the value of v, which is computed once
With(v, Op(_)) == CHOOSE x \in {Op(y) : y \in {v}} : TRUE

RECURSIVE ParseValue(_, _), ParseArray(_, _, _, _), ParseObject(_, _, _, _)
ParseValue(t, i) ==
    With(SkipWs(t, i), LAMBDA j :
    IF j > Len(t) THEN ParseFail
    ELSE IF t[j] = "\"" THEN ScanStr(t, j + 1, <<>>)
    ELSE IF t[j] = "[" THEN ParseArray(t, j + 1, <<>>, TRUE)
    ELSE IF t[j] = "{" THEN ParseObject(t, j + 1, <<>>, TRUE)
    ELSE IF t[j] = "null" THEN ParseOk(PyNone, j + 1)
    ELSE ParseFail)

ParseArray(t, i, acc, first) ==
    With(SkipWs(t, i), LAMBDA j :
    IF first /\ j <= Len(t) /\ t[j] = "]" THEN ParseOk(PyList(acc), j + 1)
    ELSE With(ParseValue(t, j), LAMBDA r :
         IF ~r.ok THEN ParseFail
         ELSE With(SkipWs(t, r.next), LAMBDA k :
              IF k > Len(t) THEN ParseFail
              ELSE IF t[k] = "," THEN ParseArray(t, k + 1, Append(acc, r.val), FALSE)
              ELSE IF t[k] = "]" THEN ParseOk(PyList(Append(acc, r.val)), k + 1)
              ELSE ParseFail)))

ParseObject(t, i, acc, first) ==
    With(SkipWs(t, i), LAMBDA j :
    IF first /\ j <= Len(t) /\ t[j] = "}" THEN ParseOk(PyDict(acc), j + 1)
    ELSE IF j > Len(t) \/ t[j] # "\"" THEN ParseFail
    ELSE With(ScanStr(t, j + 1, <<>>), LAMBDA key :
         IF ~key.ok THEN ParseFail
         ELSE With(SkipWs(t, key.next), LAMBDA c :
              IF c > Len(t) \/ t[c] # ":" THEN ParseFail
              ELSE With(ParseValue(t, c + 1), LAMBDA r :
                   IF ~r.ok THEN ParseFail
                   ELSE With(SkipWs(t, r.next), LAMBDA k :
                        With(DictSet(acc, key.val.s, r.val), LAMBDA acc2 :
                        IF k > Len(t) THEN ParseFail
                        ELSE IF t[k] = "," THEN ParseObject(t, k + 1, acc2, FALSE)
                        ELSE IF t[k] = "}" THEN ParseOk(PyDict(acc2), k + 1)
                        ELSE ParseFail))))))

\* json.loads: one value, then nothing but whitespace; ok = FALSE is JSONDecodeError
object_from_string(str) ==
    With(ParseValue(str, 1), LAMBDA r :
    IF r.ok /\ SkipWs(str, r.next) > Len(str) THEN r ELSE ParseFail)


\* ------------------------------------------------------------------ state
Peers == {"offer", "answer"}

Other(p) == IF p = "offer" THEN "answer" ELSE "offer"

VARIABLES
    pc,          \* pc[p]: where peer p's orchestrator coroutine stands
    err,         \* err[p]: the exception that ended peer p, "" while none
    wsconn,      \* wsconn[p]: 0 for None, k > 0 for the k-th websocket p opened
    opened,      \* opened[p]: how many websockets p has opened
    released,    \* released[p][k]: how many times wsconn.close() ran on websocket k
    closeCalls,  \* closeCalls[p]: how many close() calls have returned
    toServer,    \* toServer[p]: texts p has sent that the server has not handled
    toPeer,      \* toPeer[p]: texts the server has sent that p has not received
    registered,  \* the peers whose HELLO the server has acknowledged
    injected,    \* how many texts the server has sent on its own
    local,       \* local[p]: the Connection's local candidates and credentials
    conn,        \* conn[p]: the Connection's remote candidates and credentials
    descr,       \* descr[p]: the value receive() returned
    items,       \* items[p]: what is left of the iteration over descr["candidates"]
    sent,        \* sent[p]: every text p passed to send_ws_msg, in order
    log          \* log[p]: the operations p has performed, in order

VARIABLES
    tap,         \* tap[p]: the tun device: what tun_start has done to it
    readLog,     \* readLog[p]: the frames tun_reader has read, in order
    tasks,       \* tasks[p]: the sendto tasks created and not yet finished
    submitted,   \* submitted[p]: the sendto calls made, in order
    completed,   \* completed[p]: the sendto tasks finished, in order
    recvLog,     \* recvLog[p]: what recvfrom has returned, in order
    tapWrites,   \* tapWrites[p]: the tap.fd.write calls made, in order
    recvPending  \* recvPending[p]: the recvfrom calls that have not returned

VARIABLES
    codecIn,     \* the descriptor handed to send()
    codecText,   \* the text send() wrote
    codecOut,    \* what receive() returned for that text
    codecStage   \* "new", "sent" or "received"

relayVars == <<tap, readLog, tasks, submitted, completed, recvLog, tapWrites,
              recvPending>>

codecVars == <<codecIn, codecText, codecOut, codecStage>>

hsVars == <<pc, err, wsconn, opened, released, closeCalls, toServer, toPeer,
            registered, injected, local, conn, descr, items, sent, log>>

request_offerBoth(p) == TRUE

\* make_signaling: the answer action is the side that requests the offer
request_offer(p) == p = "answer"

our_id(p) == IF p = "offer" THEN "idO" ELSE "idA"

remote_id(p) == our_id(Other(p))

local_username(p) == IF p = "offer" THEN <<"u1">> ELSE <<"u2">>

local_password(p) == IF p = "offer" THEN <<"p1">> ELSE <<"p2">>

\* the candidate strings Candidate.from_sdp accepts
ValidSdp == {<<"c1">>, <<"c2">>, <<"c3">>}

GatherPool(p) == IF p = "offer" THEN {<<"c1">>, <<"c2">>} ELSE {<<"c3">>}

SeqsUpTo(S, n) == UNION {[1..k -> S] : k \in 0..n}

\* the results gather_candidates can leave in connection.local_candidates
GatherChoices(p) == SeqsUpTo(GatherPool(p), MaxCands)

LocalDescriptorSwapped(l) ==
    PyDict(<< <<<<"candidates">>,
                PyList([i \in 1..Len(l.candidates) |-> PyStr(l.candidates[i])])>>,
              <<<<"password">>, PyStr(l.username)>>,
              <<<<"username">>, PyStr(l.password)>> >>)

\* the dict offer() and answer() build from the Connection's local state
LocalDescriptor(l) ==
    PyDict(<< <<<<"candidates">>,
                PyList([i \in 1..Len(l.candidates) |-> PyStr(l.candidates[i])])>>,
              <<<<"password">>, PyStr(l.password)>>,
              <<<<"username">>, PyStr(l.username)>> >>)

HELLO == <<"HELLO">>
SESSION_OK == <<"SESSION_OK">>
OFFER_REQUEST == <<"OFFER_REQUEST">>

\* the tun device before tuntap.Tun(...) has been constructed
TapNew == [made |-> FALSE, open |-> FALSE, up |-> FALSE, addr |-> FALSE,
           mtu |-> FALSE, reader |-> FALSE, handler |-> FALSE]

vars == <<hsVars, relayVars, codecVars>>

HsInit ==
    /\ pc = [p \in Peers |-> "start"]
    /\ err = [p \in Peers |-> ""]
    /\ wsconn = [p \in Peers |-> 0]
    /\ opened = [p \in Peers |-> 0]
    /\ released = [p \in Peers |-> <<>>]
    /\ closeCalls = [p \in Peers |-> 0]
    /\ toServer = [p \in Peers |-> <<>>]
    /\ toPeer = [p \in Peers |-> <<>>]
    /\ registered = {}
    /\ injected = 0
    /\ local = [p \in Peers |-> [candidates |-> <<>>,
                                 username |-> local_username(p),
                                 password |-> local_password(p)]]
    /\ conn = [p \in Peers |-> [remote_candidates |-> <<>>,
                                remote_username |-> PyNone,
                                remote_password |-> PyNone]]
    /\ descr = [p \in Peers |-> PyNone]
    /\ items = [p \in Peers |-> <<>>]
    /\ sent = [p \in Peers |-> <<>>]
    /\ log = [p \in Peers |-> <<>>]

RelayIdle ==
    /\ tap = [p \in Peers |-> TapNew]
    /\ readLog = [p \in Peers |-> <<>>]
    /\ tasks = [p \in Peers |-> {}]
    /\ submitted = [p \in Peers |-> <<>>]
    /\ completed = [p \in Peers |-> <<>>]
    /\ recvLog = [p \in Peers |-> <<>>]
    /\ tapWrites = [p \in Peers |-> <<>>]
    /\ recvPending = [p \in Peers |-> 0]

CodecIdle ==
    /\ codecIn = PyNone
    /\ codecText = <<>>
    /\ codecOut = ParseFail
    /\ codecStage = "idle"

Init == HsInit /\ RelayIdle /\ CodecIdle

\* ------------------------------------------------------- peer: primitives
Goto(p, l) == pc' = [pc EXCEPT ![p] = l]

Logged(p, what) == log' = [log EXCEPT ![p] = @ \o what]

\* an exception leaves the coroutine: run_until_complete re-raises it and the
\* script ends
Raise(p, e) ==
    /\ pc' = [pc EXCEPT ![p] = "failed"]
    /\ err' = [err EXCEPT ![p] = e]

send_ws_msg(p, txt) ==
    /\ toServer' = [toServer EXCEPT ![p] = Append(@, txt)]
    /\ sent' = [sent EXCEPT ![p] = Append(@, txt)]

\* ----------------------------------------------------- orchestrator steps
\* make_connection and gather_candidates
GatherCandidates(p) ==
    /\ pc[p] = "start"
    /\ \E cs \in GatherChoices(p) :
          local' = [local EXCEPT ![p].candidates = cs]
    /\ Goto(p, "ws_connect")
    /\ Logged(p, <<"gather">>)
    /\ UNCHANGED <<err, wsconn, opened, released, closeCalls, toServer, toPeer,
                   registered, injected, conn, descr, items, sent,
                   relayVars, codecVars>>

\* websocket_connect up to its first recv: websockets.connect, then HELLO <our_id>
WsConnect(p) ==
    /\ pc[p] = "ws_connect"
    /\ opened' = [opened EXCEPT ![p] = @ + 1]
    /\ wsconn' = [wsconn EXCEPT ![p] = opened[p] + 1]
    /\ released' = [released EXCEPT ![p] = Append(@, 0)]
    /\ send_ws_msg(p, <<"HELLO", " ", our_id(p)>>)
    /\ Goto(p, "await_hello")
    /\ Logged(p, <<"send_hello">>)
    /\ UNCHANGED <<err, closeCalls, toPeer, registered, injected, local, conn,
                   descr, items,
                   relayVars, codecVars>>

\* offer(): connect, send, receive, feed, close
\* answer(): connect, receive, feed, send, close
AfterConnectSendFirst(p) == "send_descr"

AfterConnectReceiveFirst(p) == "receive"

AfterConnect(p) == IF p = "offer" THEN "send_descr" ELSE "receive"

AfterSendSkipsClose(p) == IF p = "offer" THEN "receive" ELSE "connect"

AfterSend(p) == IF p = "offer" THEN "receive" ELSE "close"

AfterFeed(p) == IF p = "offer" THEN "close" ELSE "send_descr"

HelloReplyOk(msg) == msg = HELLO

SessionReplyAny(msg) == TRUE

OfferRequestAny(msg) == TRUE

SessionReplyOk(msg) == msg = SESSION_OK

OfferRequestOk(msg) == msg = OFFER_REQUEST

\* the reply to HELLO <our_id>
RecvHello(p) ==
    /\ pc[p] = "await_hello"
    /\ toPeer[p] # <<>>
    /\ toPeer' = [toPeer EXCEPT ![p] = Tail(@)]
    /\ LET msg == Head(toPeer[p]) IN
       IF ~HelloReplyOk(msg)
       THEN /\ Raise(p, "Exception")
            /\ UNCHANGED <<toServer, sent, log>>
       ELSE IF request_offer(p)
       THEN /\ send_ws_msg(p, <<"SESSION", " ", remote_id(p)>>)
            /\ Goto(p, "await_session_ok")
            /\ Logged(p, <<"recv_hello", "send_session">>)
            /\ UNCHANGED err
       ELSE /\ Goto(p, "await_offer_request")
            /\ Logged(p, <<"recv_hello">>)
            /\ UNCHANGED <<toServer, sent, err>>
    /\ UNCHANGED <<wsconn, opened, released, closeCalls, registered, injected,
                   local, conn, descr, items,
                   relayVars, codecVars>>

\* request_offer side: the reply to SESSION <remote_id>, then OFFER_REQUEST
RecvSessionOk(p) ==
    /\ pc[p] = "await_session_ok"
    /\ toPeer[p] # <<>>
    /\ toPeer' = [toPeer EXCEPT ![p] = Tail(@)]
    /\ LET msg == Head(toPeer[p]) IN
       IF SessionReplyOk(msg)
       THEN /\ send_ws_msg(p, OFFER_REQUEST)
            /\ Goto(p, AfterConnect(p))
            /\ Logged(p, <<"recv_session_ok", "send_offer_request">>)
            /\ UNCHANGED err
       ELSE /\ Raise(p, "Exception")
            /\ UNCHANGED <<toServer, sent, log>>
    /\ UNCHANGED <<wsconn, opened, released, closeCalls, registered, injected,
                   local, conn, descr, items,
                   relayVars, codecVars>>

\* other side: waits for OFFER_REQUEST
RecvOfferRequest(p) ==
    /\ pc[p] = "await_offer_request"
    /\ toPeer[p] # <<>>
    /\ toPeer' = [toPeer EXCEPT ![p] = Tail(@)]
    /\ LET msg == Head(toPeer[p]) IN
       IF OfferRequestOk(msg)
       THEN /\ Goto(p, AfterConnect(p))
            /\ Logged(p, <<"recv_offer_request">>)
            /\ UNCHANGED err
       ELSE /\ Raise(p, "Exception")
            /\ UNCHANGED log
    /\ UNCHANGED <<wsconn, opened, released, closeCalls, toServer, registered,
                   injected, local, conn, descr, items, sent,
                   relayVars, codecVars>>


\* send(descr) of the local descriptor
SendDescr(p) ==
    /\ pc[p] = "send_descr"
    /\ send_ws_msg(p, object_to_string(LocalDescriptor(local[p])))
    /\ Goto(p, AfterSend(p))
    /\ Logged(p, <<"send_descr">>)
    /\ UNCHANGED <<err, wsconn, opened, released, closeCalls, toPeer, registered,
                   injected, local, conn, descr, items,
                   relayVars, codecVars>>

\* v[key] of Python: KeyError on a dict without the key, TypeError on anything
\* that is no dict (a str key never indexes a list, a str or None)
Subscript(v, key) ==
    IF v.t = "dict"
    THEN IF DictHas(v.d, key) THEN [ok |-> TRUE, val |-> DictGet(v.d, key), e |-> ""]
         ELSE [ok |-> FALSE, val |-> PyNone, e |-> "KeyError"]
    ELSE [ok |-> FALSE, val |-> PyNone, e |-> "TypeError"]

\* for c in v: a list yields its items, a dict its keys, a str its characters
\* (one character, written "ch", is never a candidate line); None is not iterable
IterItems(v) ==
    IF v.t = "list" THEN [ok |-> TRUE, items |-> v.l]
    ELSE IF v.t = "dict"
    THEN [ok |-> TRUE, items |-> [i \in 1..Len(v.d) |-> PyStr(v.d[i][1])]]
    ELSE IF v.t = "str"
    THEN [ok |-> TRUE, items |-> [i \in 1..Len(v.s) |-> PyStr(<<"ch">>)]]
    ELSE [ok |-> FALSE, items |-> <<>>]

\* aioice.Candidate.from_sdp: "" when c parses, else the exception raised
from_sdp(c) ==
    IF c.t # "str" THEN "AttributeError"
    ELSE IF c.s \in ValidSdp THEN ""
    ELSE "ValueError"

\* receive(): one recv, then json.loads
receive(text) == object_from_string(text)

AfterReceiveAnswerSendsFirst(p) == IF p = "answer" THEN "send_descr" ELSE "feed"

\* offer() and answer(): the loop over the received candidates follows
\* receive() at once
AfterReceive(p) == "feed"

\* receive() and the start of the loop over the received candidates
Receive(p) ==
    /\ pc[p] = "receive"
    /\ toPeer[p] # <<>>
    /\ toPeer' = [toPeer EXCEPT ![p] = Tail(@)]
    /\ \E r \in {receive(Head(toPeer[p]))} :
       \E sub \in {Subscript(r.val, <<"candidates">>)} :
       \E it \in {IterItems(sub.val)} :
           IF ~r.ok
           THEN /\ Raise(p, "JSONDecodeError")
                /\ UNCHANGED <<descr, items, log>>
           ELSE /\ descr' = [descr EXCEPT ![p] = r.val]
                /\ Logged(p, <<"recv_descr">>)
                /\ IF ~sub.ok THEN Raise(p, sub.e) /\ UNCHANGED items
                   ELSE IF ~it.ok THEN Raise(p, "TypeError") /\ UNCHANGED items
                   ELSE /\ items' = [items EXCEPT ![p] = it.items]
                        /\ Goto(p, AfterReceive(p))
                        /\ UNCHANGED err
    /\ UNCHANGED <<wsconn, opened, released, closeCalls, toServer, registered,
                   injected, local, conn, sent,
                   relayVars, codecVars>>

\* Connection.add_remote_candidate: the candidate, or None as the end marker
add_remote_candidate(p, c) ==
    conn' = [conn EXCEPT ![p].remote_candidates = Append(@, c)]

\* one turn of the loop: from_sdp, then add_remote_candidate
FeedCandidate(p) ==
    /\ pc[p] = "feed"
    /\ items[p] # <<>>
    /\ LET c == Head(items[p]) IN
       IF from_sdp(c) = ""
       THEN /\ add_remote_candidate(p, c)
            /\ items' = [items EXCEPT ![p] = Tail(@)]
            /\ Logged(p, <<"add_candidate">>)
            /\ UNCHANGED <<pc, err>>
       ELSE /\ Raise(p, from_sdp(c))
            /\ UNCHANGED <<conn, items, log>>
    /\ UNCHANGED <<wsconn, opened, released, closeCalls, toServer, toPeer,
                   registered, injected, local, descr, sent,
                   relayVars, codecVars>>

\* after the loop: add_remote_candidate(None)
FeedEnd(p) ==
    /\ pc[p] = "feed"
    /\ items[p] = <<>>
    /\ add_remote_candidate(p, PyNone)
    /\ Goto(p, "set_creds")
    /\ Logged(p, <<"add_end">>)
    /\ UNCHANGED <<err, wsconn, opened, released, closeCalls, toServer, toPeer,
                   registered, injected, local, descr, items, sent,
                   relayVars, codecVars>>

\* remote_username = d["username"], then remote_password = d["password"]
SetCredentials(p) ==
    /\ pc[p] = "set_creds"
    /\ LET u == Subscript(descr[p], <<"username">>)
           w == Subscript(descr[p], <<"password">>)
       IN  IF ~u.ok
           THEN Raise(p, u.e) /\ UNCHANGED <<conn, log>>
           ELSE IF ~w.ok
           THEN /\ conn' = [conn EXCEPT ![p].remote_username = u.val]
                /\ Raise(p, w.e)
                /\ UNCHANGED log
           ELSE /\ conn' = [conn EXCEPT ![p].remote_username = u.val,
                                        ![p].remote_password = w.val]
                /\ Goto(p, AfterFeed(p))
                /\ Logged(p, <<"set_creds">>)
                /\ UNCHANGED err
    /\ UNCHANGED <<wsconn, opened, released, closeCalls, toServer, toPeer,
                   registered, injected, local, descr, items, sent,
                   relayVars, codecVars>>

closeKeepsHandle(p) ==
    /\ IF wsconn[p] # 0
       THEN released' = [released EXCEPT ![p][wsconn[p]] = @ + 1]
       ELSE UNCHANGED released
    /\ UNCHANGED wsconn
    /\ closeCalls' = [closeCalls EXCEPT ![p] = @ + 1]

\* close(): releases the websocket if there is one, and forgets it
close(p) ==
    /\ IF wsconn[p] # 0
       THEN /\ released' = [released EXCEPT ![p][wsconn[p]] = @ + 1]
            /\ wsconn' = [wsconn EXCEPT ![p] = 0]
       ELSE UNCHANGED <<released, wsconn>>
    /\ closeCalls' = [closeCalls EXCEPT ![p] = @ + 1]

AfterCloseTunFirst(p) == "tun_start"

\* offer() and answer(): after signaling.close() come tuntap.Tun(...) and
\* connection.connect(), and tun_start after that
AfterClose(p) == "connect"

\* signaling.close() in offer() and answer()
Close(p) ==
    /\ pc[p] = "close"
    /\ close(p)
    /\ Goto(p, AfterClose(p))
    /\ Logged(p, <<"close">>)
    /\ UNCHANGED <<err, opened, toServer, toPeer, registered, injected, local,
                   conn, descr, items, sent,
                   relayVars, codecVars>>

\* tap = tuntap.Tun(...), then connection.connect() is called
ConnectCall(p) ==
    /\ pc[p] = "connect"
    /\ tap' = [tap EXCEPT ![p].made = TRUE]
    /\ Goto(p, "connecting")
    /\ Logged(p, <<"tun_made", "connect_call">>)
    /\ UNCHANGED <<err, wsconn, opened, released, closeCalls, toServer, toPeer,
                   registered, injected, local, conn, descr, items, sent,
                   readLog, tasks, submitted, completed, recvLog, tapWrites,
                   recvPending, codecVars>>

ConnectRaisesNever(ok) == FALSE

\* await connection.connect(): nothing catches what it raises
ConnectRaises(ok) == ~ok

\* connection.connect() returns, or raises ConnectionError
ConnectReturn(p) ==
    /\ pc[p] = "connecting"
    /\ \E ok \in BOOLEAN :
          IF ConnectRaises(ok)
          THEN Raise(p, "ConnectionError") /\ Logged(p, <<"connect_raised">>)
          ELSE /\ Goto(p, "tun_start")
               /\ Logged(p, <<IF ok THEN "connected" ELSE "connect_raised">>)
               /\ UNCHANGED err
    /\ UNCHANGED <<wsconn, opened, released, closeCalls, toServer, toPeer,
                   registered, injected, local, conn, descr, items, sent,
                   relayVars, codecVars>>

\* An exception leaves tun_start, and with it offer() or answer(), once the
\* reader is registered. The task run_until_complete waits for is done; its
\* done callback, which stops the loop, runs one iteration later, and a stopped
\* loop still finishes its iteration. While relaying, callbacks and tasks that
\* are ready run before the done callback. In the first step of tun_start
\* nothing else is ready yet, and the done callback is the first of the last
\* iteration.
CoroutineRaises(p, e) ==
    /\ pc' = [pc EXCEPT ![p] = IF @ = "recvfrom" THEN "dying" ELSE "stopping"]
    /\ err' = [err EXCEPT ![p] = IF @ = "" THEN e ELSE @]
    /\ recvPending' = [recvPending EXCEPT ![p] = 0]

\* tun_start: tap.open(), set_exception_handler, add_reader, tap.up()
TunStart(p) ==
    /\ pc[p] = "tun_start"
    /\ tap' = [tap EXCEPT ![p].open = TRUE, ![p].handler = TRUE,
                          ![p].reader = TRUE, ![p].up = TRUE]
    /\ Goto(p, "ip_addr")
    /\ Logged(p, <<"tap_open", "set_exception_handler", "add_reader", "tap_up">>)
    /\ UNCHANGED <<err, wsconn, opened, released, closeCalls, toServer, toPeer,
                   registered, injected, local, conn, descr, items, sent,
                   readLog, tasks, submitted, completed, recvLog, tapWrites,
                   recvPending, codecVars>>

\* tun_start: ip address add; check=True raises CalledProcessError when ip fails
IpAddr(p) ==
    /\ pc[p] = "ip_addr"
    /\ \E ok \in BOOLEAN :
          IF ok
          THEN /\ tap' = [tap EXCEPT ![p].addr = TRUE]
               /\ Goto(p, "ip_mtu")
               /\ Logged(p, <<"ip_addr">>)
               /\ UNCHANGED <<err, recvPending>>
          ELSE /\ CoroutineRaises(p, "CalledProcessError")
               /\ UNCHANGED <<tap, log>>
    /\ UNCHANGED <<wsconn, opened, released, closeCalls, toServer, toPeer,
                   registered, injected, local, conn, descr, items, sent,
                   readLog, tasks, submitted, completed, recvLog, tapWrites,
                   codecVars>>

\* tun_start: ip link set mtu, tap.get_mtu(), then the first await of recvfrom
IpMtu(p) ==
    /\ pc[p] = "ip_mtu"
    /\ \E ok \in BOOLEAN :
          IF ok
          THEN /\ tap' = [tap EXCEPT ![p].mtu = TRUE]
               /\ Goto(p, "recvfrom")
               /\ recvPending' = [recvPending EXCEPT ![p] = @ + 1]
               /\ Logged(p, <<"ip_mtu", "recvfrom">>)
               /\ UNCHANGED err
          ELSE /\ CoroutineRaises(p, "CalledProcessError")
               /\ UNCHANGED <<tap, log>>
    /\ UNCHANGED <<wsconn, opened, released, closeCalls, toServer, toPeer,
                   registered, injected, local, conn, descr, items, sent,
                   readLog, tasks, submitted, completed, recvLog, tapWrites,
                   codecVars>>

\* run_until_complete's done callback: loop.stop()
StopCallback(p) ==
    /\ pc[p] = "dying"
    /\ Goto(p, "stopping")
    /\ UNCHANGED <<err, wsconn, opened, released, closeCalls, toServer, toPeer,
                   registered, injected, local, conn, descr, items, sent, log,
                   relayVars, codecVars>>

\* The stopped loop returns at the end of its iteration. run_until_complete
\* raises the coroutine's exception, or RuntimeError when the coroutine is not
\* done; nothing catches it and the script ends.
LoopStops(p) ==
    /\ pc[p] = "stopping"
    /\ Goto(p, "failed")
    /\ recvPending' = [recvPending EXCEPT ![p] = 0]
    /\ UNCHANGED <<err, wsconn, opened, released, closeCalls, toServer, toPeer,
                   registered, injected, local, conn, descr, items, sent, log,
                   tap, readLog, tasks, submitted, completed, recvLog, tapWrites,
                   codecVars>>

\* ------------------------------------------------------- signaling server
\* The server of the wire protocol: HELLO <id> is answered HELLO, SESSION <id>
\* is answered SESSION_OK, any other text is passed on to the other peer once
\* that peer has said HELLO.
ServerHandle(p) ==
    /\ toServer[p] # <<>>
    /\ LET m == Head(toServer[p]) IN
       IF m[1] = "HELLO"
       THEN /\ registered' = registered \cup {p}
            /\ toPeer' = [toPeer EXCEPT ![p] = Append(@, HELLO)]
       ELSE IF m[1] = "SESSION"
       THEN /\ toPeer' = [toPeer EXCEPT ![p] = Append(@, SESSION_OK)]
            /\ UNCHANGED registered
       ELSE /\ Other(p) \in registered
            /\ toPeer' = [toPeer EXCEPT ![Other(p)] = Append(@, m)]
            /\ UNCHANGED registered
    /\ toServer' = [toServer EXCEPT ![p] = Tail(@)]
    /\ UNCHANGED <<pc, err, wsconn, opened, released, closeCalls, injected, local,
                   conn, descr, items, sent, log,
                   relayVars, codecVars>>

Awaiting(p) ==
    pc[p] \in {"await_hello", "await_session_ok", "await_offer_request", "receive"}

MaxInject == 1

ForgedDescriptor ==
    [candidates |-> <<<<"c3">>>>, username |-> <<"ux">>, password |-> <<"px">>]

\* what a server that does not keep to the protocol may send: tokens out of
\* place, text that is no JSON, JSON that is no descriptor, a descriptor of its own
InjectTexts ==
    {HELLO, SESSION_OK, OFFER_REQUEST, <<"ERROR">>, <<"{">>,
     object_to_string(PyList(<<>>)),
     object_to_string(PyDict(<< <<<<"candidates">>, PyList(<<PyStr(<<"c1">>)>>)>> >>)),
     object_to_string(PyDict(<< <<<<"candidates">>, PyList(<<PyStr(<<"c1">>)>>)>>,
                                <<<<"username">>, PyStr(<<"ux">>)>> >>)),
     object_to_string(PyDict(<< <<<<"candidates">>,
                                  PyList(<<PyStr(<<"c1">>), PyNone>>)>>,
                                <<<<"password">>, PyStr(<<"px">>)>>,
                                <<<<"username">>, PyStr(<<"ux">>)>> >>)),
     object_to_string(LocalDescriptor(ForgedDescriptor))}

\* the server sends a text of its own to a peer that awaits one
ServerInject(p) ==
    /\ injected < MaxInject
    /\ Awaiting(p)
    /\ toPeer[p] = <<>>
    /\ \E m \in InjectTexts : toPeer' = [toPeer EXCEPT ![p] = Append(@, m)]
    /\ injected' = injected + 1
    /\ UNCHANGED <<pc, err, wsconn, opened, released, closeCalls, toServer,
                   registered, local, conn, descr, items, sent, log,
                   relayVars, codecVars>>

\* ----------------------------------------------------------- specification
PeerStep(p) ==
    \/ GatherCandidates(p)
    \/ WsConnect(p)
    \/ RecvHello(p)
    \/ RecvSessionOk(p)
    \/ RecvOfferRequest(p)
    \/ SendDescr(p)
    \/ Receive(p)
    \/ FeedCandidate(p)
    \/ FeedEnd(p)
    \/ SetCredentials(p)
    \/ Close(p)
    \/ ConnectCall(p)
    \/ ConnectReturn(p)
    \/ TunStart(p)
    \/ IpAddr(p)
    \/ IpMtu(p)
    \/ LoopStops(p)

HonestNext == \E p \in Peers : PeerStep(p) \/ ServerHandle(p)

Next == \E p \in Peers : PeerStep(p) \/ ServerHandle(p) \/ ServerInject(p)

Spec == Init /\ [][Next]_vars


\* the peers take their steps and the server handles what it is sent
LiveSpec ==
    /\ Init
    /\ [][HonestNext]_vars
    /\ \A p \in Peers : WF_vars(PeerStep(p)) /\ WF_vars(ServerHandle(p))

\* the peers take their steps; the server may stay silent
StallSpec ==
    /\ Init
    /\ [][Next]_vars
    /\ \A p \in Peers : WF_vars(PeerStep(p))

\* ------------------------------------------------------------ properties
IsPrefix(a, b) == Len(a) <= Len(b) /\ \A i \in 1..Len(a) : a[i] = b[i]

Count(q, e) == Cardinality({i \in 1..Len(q) : q[i] = e})

Did(p, e) == \E i \in 1..Len(log[p]) : log[p][i] = e

DescrEvents(p) ==
    SelectSeq(log[p], LAMBDA e : e \in {"send_descr", "recv_descr"})

HandshakeDone(p) == Did(p, "close")

ConnInit ==
    [remote_candidates |-> <<>>, remote_username |-> PyNone,
     remote_password |-> PyNone]

\* C1: with a server that handles what it is sent, the handshake completes on
\* both sides, and a side that has completed it has sent exactly one
\* descriptor and received exactly one.
C1_HandshakeCompletes ==
    /\ <>(\A p \in Peers : HandshakeDone(p))
    /\ [](\A p \in Peers :
            HandshakeDone(p) =>
                /\ Count(log[p], "send_descr") = 1
                /\ Count(log[p], "recv_descr") = 1
                /\ Count(sent[p], object_to_string(LocalDescriptor(local[p]))) = 1)

C1_Witness == \A p \in Peers : HandshakeDone(p)

\* C2: the offer side sends its descriptor and then receives, the answer side
\* receives and then sends, whatever texts the server delivers.
C2_OrderByRole ==
    /\ IsPrefix(DescrEvents("offer"), <<"send_descr", "recv_descr">>)
    /\ IsPrefix(DescrEvents("answer"), <<"recv_descr", "send_descr">>)

C2_Witness ==
    /\ DescrEvents("offer") = <<"send_descr", "recv_descr">>
    /\ DescrEvents("answer") = <<"recv_descr", "send_descr">>

ConnectFailed(p) == pc[p] = "failed" /\ err[p] = "Exception"

\* the text at the head of p's inbox is not what p's handshake step expects
TokenMismatch(p) ==
    /\ toPeer[p] # <<>>
    /\ \/ pc[p] = "await_hello" /\ Head(toPeer[p]) # HELLO
       \/ pc[p] = "await_session_ok" /\ Head(toPeer[p]) # SESSION_OK
       \/ pc[p] = "await_offer_request" /\ Head(toPeer[p]) # OFFER_REQUEST

\* C3: a reply that is not the expected token makes connect() raise; after
\* that the peer sends nothing, exchanges no descriptor, feeds nothing into
\* its Connection and never starts the relay.
C3_MismatchIsFatal ==
    /\ [][\A p \in Peers :
            /\ (TokenMismatch(p) /\ pc'[p] # pc[p]) => ConnectFailed(p)'
            /\ ConnectFailed(p) =>
                  /\ ConnectFailed(p)'
                  /\ sent'[p] = sent[p]
                  /\ log'[p] = log[p]
                  /\ conn'[p] = conn[p]
                  /\ tap'[p] = tap[p]]_vars
    /\ [](\A p \in Peers :
            ConnectFailed(p) =>
                /\ DescrEvents(p) = <<>>
                /\ Count(sent[p], object_to_string(LocalDescriptor(local[p]))) = 0
                /\ conn[p] = ConnInit
                /\ tap[p] = TapNew)

C3_Witness ==
    /\ ConnectFailed("answer")
    /\ Did("answer", "send_session")
    /\ pc["offer"] = "await_offer_request"

\* C5: once a peer has closed the signaling channel of a handshake relayed by
\* the server, its Connection holds the other peer's local candidates in
\* order, then the end marker, and the other peer's username and password;
\* connect() is called only after that.
C5_RemoteMatchesPeer ==
    \A p \in Peers :
        /\ HandshakeDone(p) =>
              LET o == local[Other(p)] IN
              /\ conn[p].remote_candidates =
                    [i \in 1..Len(o.candidates) |-> PyStr(o.candidates[i])]
                       \o <<PyNone>>
              /\ conn[p].remote_username = PyStr(o.username)
              /\ conn[p].remote_password = PyStr(o.password)
        /\ Did(p, "connect_call") => HandshakeDone(p)

C5_Witness ==
    /\ \A p \in Peers : Did(p, "connect_call")
    /\ Len(local["offer"].candidates) = 2
    /\ local["offer"].candidates[1] # local["offer"].candidates[2]
    /\ Len(local["answer"].candidates) = 1

\* a value with the shape of a session descriptor
IsDescriptor(v) ==
    /\ v.t = "dict"
    /\ \A k \in {<<"candidates">>, <<"username">>, <<"password">>} : DictHas(v.d, k)
    /\ DictGet(v.d, <<"candidates">>).t = "list"
    /\ \A i \in 1..Len(DictGet(v.d, <<"candidates">>).l) :
          DictGet(v.d, <<"candidates">>).l[i].t = "str"
    /\ DictGet(v.d, <<"username">>).t = "str"
    /\ DictGet(v.d, <<"password">>).t = "str"

ReceivedMalformed(p) ==
    \/ err[p] = "JSONDecodeError"
    \/ Did(p, "recv_descr") /\ ~IsDescriptor(descr[p])

\* C6: a malformed descriptor feeds nothing into the Connection.
C6_MalformedFeedsNothing ==
    \A p \in Peers : ReceivedMalformed(p) => conn[p] = ConnInit



\* the text at the head of p's inbox is no JSON while p awaits the descriptor
DescrMismatch(p) ==
    /\ pc[p] = "receive"
    /\ toPeer[p] # <<>>
    /\ ~object_from_string(Head(toPeer[p])).ok

\* C4 as claimed: a peer that awaits a signaling text does not await it forever.
C4_NeverHangs == \A p \in Peers : Awaiting(p) ~> ~Awaiting(p)

\* C4: a delivered reply that is not the expected token, or a delivered
\* descriptor text that is no JSON, ends the peer with an error at its next
\* step; a peer to which nothing is delivered stays where it is: recv() has no
\* timeout.
C4_MismatchEndsSilenceWaits ==
    [][\A p \in Peers :
            /\ (Awaiting(p) /\ toPeer[p] = <<>>) => pc'[p] = pc[p]
            /\ ((TokenMismatch(p) \/ DescrMismatch(p)) /\ pc'[p] # pc[p])
                  => pc'[p] = "failed"]_vars

C4_Witness ==
    /\ pc["offer"] = "await_offer_request"
    /\ toPeer["offer"] = <<>>
    /\ pc["answer"] = "failed"
    /\ err["answer"] = "Exception"
    /\ \A p \in Peers : toServer[p] = <<>>

\* ------------------------------------------------------------------ codec
Chars == {"a", "n", "\"", "\\", "\n"}

CodecCandidatePool == {<<>>, <<"c1">>, <<"\"", ",", "]">>}

CodecPasswords == {<<>>, <<"p1">>, <<"\\", "n">>, <<"}", " ">>}

CodecDescriptors ==
    {LocalDescriptor([candidates |-> cs, username |-> u, password |-> w]) :
        cs \in SeqsUpTo(CodecCandidatePool, MaxCands),
        u \in SeqsUpTo(Chars, MaxStrLen),
        w \in CodecPasswords}

CodecInit ==
    /\ HsInit
    /\ RelayIdle
    /\ codecIn \in CodecDescriptors
    /\ codecText = <<>>
    /\ codecOut = ParseFail
    /\ codecStage = "new"

\* send(descr): the text handed to send_ws_msg
CodecSend ==
    /\ codecStage = "new"
    /\ codecText' = object_to_string(codecIn)
    /\ codecStage' = "sent"
    /\ UNCHANGED <<codecIn, codecOut, hsVars, relayVars>>

\* receive() on that text
CodecReceive ==
    /\ codecStage = "sent"
    /\ codecOut' = receive(codecText)
    /\ codecStage' = "received"
    /\ UNCHANGED <<codecIn, codecText, hsVars, relayVars>>

CodecNext == CodecSend \/ CodecReceive

CodecSpec == CodecInit /\ [][CodecNext]_vars

\* C7: what receive() returns for the text send() wrote is the descriptor sent.
C7_RoundTrip ==
    codecStage = "received" => codecOut.ok /\ codecOut.val = codecIn

C7_Witness ==
    /\ codecStage = "received"
    /\ DictGet(codecIn.d, <<"username">>) = PyStr(<<"\\", "n">>)
    /\ DictGet(codecIn.d, <<"password">>) = PyStr(<<>>)
    /\ DictGet(codecIn.d, <<"candidates">>) =
          PyList(<<PyStr(<<"\"", ",", "]">>), PyStr(<<"\"", ",", "]">>)>>)

C7_WitnessEmpty ==
    /\ codecStage = "received"
    /\ DictGet(codecIn.d, <<"candidates">>) = PyList(<<>>)
    /\ DictGet(codecIn.d, <<"username">>) = PyStr(<<>>)

\* ------------------------------------------------------------------ relay
MaxReads == 2
MaxRecvs == 2
\* the reads of the tap and the returns of recvfrom a run makes, together
MaxRelayOps == 3

\* what tap.fd.read and recvfrom can return: b"" and two packets
Frames == {<<>>, <<1>>, <<2, 3>>}

Components == {1, 2}

\* the state after a handshake relayed by the server in which the offer side
\* gathered c1, c2 and the answer side c3; peer r has returned from connect()
\* and run tun_start to its first await, the other peer is still in connect()
HandshakeLog(p) ==
    IF p = "offer"
    THEN <<"gather", "send_hello", "recv_hello", "recv_offer_request", "send_descr",
           "recv_descr", "add_candidate", "add_end", "set_creds", "close",
           "tun_made", "connect_call">>
    ELSE <<"gather", "send_hello", "recv_hello", "send_session", "recv_session_ok",
           "send_offer_request", "recv_descr", "add_candidate", "add_candidate",
           "add_end", "set_creds", "send_descr", "close", "tun_made",
           "connect_call">>

RelayLocal(p) ==
    [candidates |-> IF p = "offer" THEN <<<<"c1">>, <<"c2">>>> ELSE <<<<"c3">>>>,
     username |-> local_username(p), password |-> local_password(p)]

RelayInit ==
    \E r \in Peers :
        /\ pc = [p \in Peers |-> IF p = r THEN "recvfrom" ELSE "connecting"]
        /\ err = [p \in Peers |-> ""]
        /\ wsconn = [p \in Peers |-> 0]
        /\ opened = [p \in Peers |-> 1]
        /\ released = [p \in Peers |-> <<1>>]
        /\ closeCalls = [p \in Peers |-> 1]
        /\ toServer = [p \in Peers |-> <<>>]
        /\ toPeer = [p \in Peers |-> <<>>]
        /\ registered = Peers
        /\ injected = 0
        /\ local = [p \in Peers |-> RelayLocal(p)]
        /\ conn = [p \in Peers |->
              [remote_candidates |->
                  [i \in 1..Len(RelayLocal(Other(p)).candidates) |->
                      PyStr(RelayLocal(Other(p)).candidates[i])] \o <<PyNone>>,
               remote_username |-> PyStr(local_username(Other(p))),
               remote_password |-> PyStr(local_password(Other(p)))]]
        /\ descr = [p \in Peers |-> LocalDescriptor(RelayLocal(Other(p)))]
        /\ items = [p \in Peers |-> <<>>]
        /\ sent = [p \in Peers |->
              IF p = "offer"
              THEN <<<<"HELLO", " ", our_id(p)>>,
                     object_to_string(LocalDescriptor(RelayLocal(p)))>>
              ELSE <<<<"HELLO", " ", our_id(p)>>, <<"SESSION", " ", remote_id(p)>>,
                     OFFER_REQUEST,
                     object_to_string(LocalDescriptor(RelayLocal(p)))>>]
        /\ log = [p \in Peers |->
              IF p = r
              THEN HandshakeLog(p) \o
                   <<"connected", "tap_open", "set_exception_handler", "add_reader",
                     "tap_up", "ip_addr", "ip_mtu", "recvfrom">>
              ELSE HandshakeLog(p)]
        /\ tap = [p \in Peers |->
              IF p = r
              THEN [made |-> TRUE, open |-> TRUE, up |-> TRUE, addr |-> TRUE,
                    mtu |-> TRUE, reader |-> TRUE, handler |-> TRUE]
              ELSE [TapNew EXCEPT !.made = TRUE]]
        /\ readLog = [p \in Peers |-> <<>>]
        /\ tasks = [p \in Peers |-> {}]
        /\ submitted = [p \in Peers |-> <<>>]
        /\ completed = [p \in Peers |-> <<>>]
        /\ recvLog = [p \in Peers |-> <<>>]
        /\ tapWrites = [p \in Peers |-> <<>>]
        /\ recvPending = [p \in Peers |-> IF p = r THEN 1 ELSE 0]
        /\ CodecIdle

default_exception_handler(p, e, raised) ==
    /\ err' = [err EXCEPT ![p] = IF @ = "" THEN e ELSE @]
    /\ UNCHANGED pc

\* print_exception_and_exit: loop.stop(), then exit(1). The SystemExit that
\* exit(1) raises leaves the loop and ends the script when the handler was
\* called for a callback; called from a task's finalizer it is ignored, and
\* what remains is the stopped loop.
print_exception_and_exit(p, e, raised) ==
    /\ pc' = [pc EXCEPT ![p] = IF raised THEN "exited" ELSE "stopping"]
    /\ err' = [err EXCEPT ![p] = IF @ = "" THEN e ELSE @]

\* The loop runs callbacks and tasks only while the orchestrator coroutine is
\* not running: suspended in "await connection.recvfrom()", the one await of
\* tun_start, or ended by an exception while the loop has not stopped yet.
LoopTurn(p) == pc[p] \in {"recvfrom", "dying", "stopping"}

ForwardAlways(data) == TRUE

\* tun_reader: "if data"
ReaderForwards(data) == data # <<>>

WriteAlways(data) == TRUE

\* tun_start: "if data"
LoopWrites(data) == data # <<>>

\* tun_start: "data, component = await connection.recvfrom()", "if data":
\* component is not looked at
WritesPayload(data, component) == LoopWrites(data)

ReaderReadySerialized(p) == tap[p].reader /\ tasks[p] = {}

\* add_reader(tap.fd, tun_reader): the callback runs when the tap is readable
ReaderReady(p) == tap[p].reader

\* the run of p may make one more read or take one more payload
MoreRelayOps(p) == Len(readLog[p]) + Len(recvLog[p]) < MaxRelayOps

\* tun_reader, the add_reader callback: one read; a non-empty frame becomes
\* one sendto task on component 1. A task created in the loop's last
\* iteration never runs. A read that raises reaches the loop's exception
\* handler.
TunReader(p) ==
    /\ LoopTurn(p)
    /\ ReaderReady(p)
    /\ Len(readLog[p]) < MaxReads
    /\ MoreRelayOps(p)
    /\ \/ \E data \in Frames :
             /\ readLog' = [readLog EXCEPT ![p] = Append(@, data)]
             /\ IF ReaderForwards(data)
                THEN /\ tasks' = [tasks EXCEPT ![p] = @ \cup
                           {[id |-> Len(submitted[p]) + 1, data |-> data,
                             component |-> 1, late |-> pc[p] = "stopping"]}]
                     /\ submitted' = [submitted EXCEPT ![p] =
                           Append(@, [data |-> data, component |-> 1])]
                ELSE UNCHANGED <<tasks, submitted>>
             /\ UNCHANGED <<pc, err, recvPending>>
       \/ /\ print_exception_and_exit(p, "OSError", TRUE)
          /\ recvPending' = [recvPending EXCEPT ![p] = 0]
          /\ UNCHANGED <<readLog, tasks, submitted>>
    /\ UNCHANGED <<wsconn, opened, released, closeCalls, toServer, toPeer,
                   registered, injected, local, conn, descr, items, sent, log,
                   tap, completed, recvLog, tapWrites, codecVars>>

\* Connection.sendto gives no order among the sends in flight: any task that
\* was created before the loop's last iteration may be the next to finish.
Runnable(p) == {t \in tasks[p] : ~t.late}

\* A sendto task runs: the send is performed, in any order among the tasks. A
\* task that raises keeps its exception, nobody retrieves it, and when the
\* task is dropped its finalizer calls the loop's exception handler.
SendtoDone(p) ==
    /\ LoopTurn(p)
    /\ \E t \in Runnable(p) :
          /\ tasks' = [tasks EXCEPT ![p] = @ \ {t}]
          /\ \/ /\ completed' = [completed EXCEPT ![p] = Append(@, t.id)]
                /\ UNCHANGED <<pc, err>>
             \/ /\ print_exception_and_exit(p, "ConnectionError", FALSE)
                /\ UNCHANGED completed
    /\ UNCHANGED <<wsconn, opened, released, closeCalls, toServer, toPeer,
                   registered, injected, local, conn, descr, items, sent, log,
                   tap, readLog, submitted, recvLog, tapWrites, recvPending,
                   codecVars>>

\* the loop of tun_start: recvfrom returns, a non-empty payload is written to
\* the tap, recvfrom is awaited again. recvfrom or the write may raise, which
\* ends the coroutine.
RecvfromReturn(p) ==
    /\ LoopTurn(p)
    /\ recvPending[p] = 1
    /\ Len(recvLog[p]) < MaxRecvs
    /\ MoreRelayOps(p)
    /\ \/ \E data \in Frames, component \in Components, written \in BOOLEAN :
             /\ recvLog' = [recvLog EXCEPT ![p] =
                   Append(@, [data |-> data, component |-> component])]
             /\ IF WritesPayload(data, component)
                THEN /\ tapWrites' = [tapWrites EXCEPT ![p] = Append(@, data)]
                     /\ IF written
                        THEN UNCHANGED <<pc, err, recvPending>>
                        ELSE CoroutineRaises(p, "OSError")
                ELSE /\ written
                     /\ UNCHANGED <<tapWrites, pc, err, recvPending>>
       \/ /\ CoroutineRaises(p, "ConnectionError")
          /\ UNCHANGED <<recvLog, tapWrites>>
    /\ UNCHANGED <<wsconn, opened, released, closeCalls, toServer, toPeer,
                   registered, injected, local, conn, descr, items, sent, log,
                   tap, readLog, tasks, submitted, completed, codecVars>>

RelayStep(p) ==
    \/ TunReader(p)
    \/ SendtoDone(p)
    \/ RecvfromReturn(p)
    \/ StopCallback(p)
    \/ LoopStops(p)

RelayNext == \E p \in Peers : RelayStep(p)

RelaySpec == RelayInit /\ [][RelayNext]_vars

\* the loop, once told to stop, stops
RelayLiveSpec ==
    /\ RelayInit
    /\ [][RelayNext]_vars
    /\ \A p \in Peers : WF_vars(StopCallback(p)) /\ WF_vars(LoopStops(p))

NonEmpty(q) == SelectSeq(q, LAMBDA d : d # <<>>)

\* C8: the writes to the tap are the non-empty payloads recvfrom returned, each
\* as it was returned and in that order, and at most one recvfrom is pending.
C8_InboundInOrder ==
    \A p \in Peers :
        /\ tapWrites[p] = NonEmpty([i \in 1..Len(recvLog[p]) |-> recvLog[p][i].data])
        /\ recvPending[p] <= 1

C8_Witness ==
    \E p \in Peers :
        /\ Len(recvLog[p]) = 2
        /\ recvLog[p][1].data = <<>>
        /\ recvLog[p][2].data = <<2, 3>>
        /\ tapWrites[p] = << <<2, 3>> >>
        /\ recvPending[p] = 1

\* C9: the sendto calls are the non-empty frames tun_reader read, one call per
\* frame, each frame whole and on its own; an empty read makes no call.
C9_OutboundOnePerFrame ==
    \A p \in Peers :
        LET frames == NonEmpty(readLog[p]) IN
        /\ Len(submitted[p]) = Len(frames)
        /\ \A i \in 1..Len(frames) : submitted[p][i].data = frames[i]
        /\ Cardinality(tasks[p]) + Len(completed[p]) <= Len(frames)

C9_Witness ==
    \E p \in Peers :
        /\ readLog[p] = << <<>>, <<1>> >>
        /\ Len(submitted[p]) = 1
        /\ submitted[p][1].data = <<1>>

\* the script has ended
Terminated(p) == pc[p] \in {"failed", "exited"}

\* The status the process ends with: the argument of exit() when the handler's
\* SystemExit ends the script, 1 when an uncaught exception does; -1 while the
\* process runs.
ExitStatus(p) ==
    IF pc[p] = "exited" THEN 1 ELSE IF pc[p] = "failed" THEN 1 ELSE -1

\* a sendto task of p has raised
TaskFailed(p) == Len(submitted[p]) > Len(completed[p]) + Cardinality(tasks[p])

\* C11: an I/O error on either path of the relay (a read in tun_reader, a
\* sendto task, recvfrom, a write to the tap) is followed by the end of the
\* process with a non-zero status; the relay does not run on with the error
\* dropped.
C11_ErrorEndsProcess ==
    \A p \in Peers :
        (err[p] # "" \/ TaskFailed(p)) ~> (Terminated(p) /\ ExitStatus(p) > 0)

C11_Witness ==
    \E p \in Peers :
        /\ TaskFailed(p)
        /\ err[p] = "ConnectionError"
        /\ pc[p] = "failed"
        /\ ExitStatus(p) = 1

\* the payloads of q that recvfrom returned for component 1
OnComponentOne(q) ==
    LET kept == SelectSeq(q, LAMBDA r : r.component = 1 /\ r.data # <<>>)
    IN [i \in 1..Len(kept) |-> kept[i].data]

\* C12: every sendto is on component 1, and what is written to the tap is
\* what recvfrom returned for component 1: a payload of another component is
\* never written.
C12_ComponentOneOnly ==
    \A p \in Peers :
        /\ \A i \in 1..Len(submitted[p]) : submitted[p][i].component = 1
        /\ tapWrites[p] = OnComponentOne(recvLog[p])

\* tun_start has touched the tun device of p
TapTouched(p) == tap[p].open \/ tap[p].up \/ tap[p].addr \/ tap[p].mtu

TapConfigured(p) == tap[p].open /\ tap[p].up /\ tap[p].addr /\ tap[p].mtu

\* C13, as claimed: when connect() is called the interface is open, up and
\* has its address and MTU.
C13_ConfiguredBeforeConnect ==
    \A p \in Peers : Did(p, "connect_call") => TapConfigured(p)

\* C13, amended: the tun object is constructed before connect() is called,
\* and it is opened, brought up and given its address and MTU only after
\* connect() has returned.
C13_ConfiguredAfterConnect ==
    \A p \in Peers :
        /\ Did(p, "connect_call") => tap[p].made
        /\ TapTouched(p) => Did(p, "connected")
        /\ pc[p] = "connecting" => ~TapTouched(p)

C13_Witness ==
    \E p \in Peers :
        /\ pc[p] = "recvfrom"
        /\ TapConfigured(p)
        /\ Did(p, "connect_call")
        /\ Did(p, "connected")

\* ----------------------------------------------- from connect() to the relay
\* The state after a handshake relayed by the server, as in RelayInit: peer r
\* has closed the signaling channel and is about to construct the tun device
\* and call connect(); the connect() of the other peer has raised.
TunnelInit ==
    \E r \in Peers :
        /\ pc = [p \in Peers |-> IF p = r THEN "connect" ELSE "failed"]
        /\ err = [p \in Peers |-> IF p = r THEN "" ELSE "ConnectionError"]
        /\ wsconn = [p \in Peers |-> 0]
        /\ opened = [p \in Peers |-> 1]
        /\ released = [p \in Peers |-> <<1>>]
        /\ closeCalls = [p \in Peers |-> 1]
        /\ toServer = [p \in Peers |-> <<>>]
        /\ toPeer = [p \in Peers |-> <<>>]
        /\ registered = Peers
        /\ injected = 0
        /\ local = [p \in Peers |-> RelayLocal(p)]
        /\ conn = [p \in Peers |->
              [remote_candidates |->
                  [i \in 1..Len(RelayLocal(Other(p)).candidates) |->
                      PyStr(RelayLocal(Other(p)).candidates[i])] \o <<PyNone>>,
               remote_username |-> PyStr(local_username(Other(p))),
               remote_password |-> PyStr(local_password(Other(p)))]]
        /\ descr = [p \in Peers |-> LocalDescriptor(RelayLocal(Other(p)))]
        /\ items = [p \in Peers |-> <<>>]
        /\ sent = [p \in Peers |->
              IF p = "offer"
              THEN <<<<"HELLO", " ", our_id(p)>>,
                     object_to_string(LocalDescriptor(RelayLocal(p)))>>
              ELSE <<<<"HELLO", " ", our_id(p)>>, <<"SESSION", " ", remote_id(p)>>,
                     OFFER_REQUEST,
                     object_to_string(LocalDescriptor(RelayLocal(p)))>>]
        /\ log = [p \in Peers |->
              IF p = r
              THEN SubSeq(HandshakeLog(p), 1, Len(HandshakeLog(p)) - 2)
              ELSE HandshakeLog(p) \o <<"connect_raised">>]
        /\ tap = [p \in Peers |->
              IF p = r THEN TapNew ELSE [TapNew EXCEPT !.made = TRUE]]
        /\ RelayIdle!2 /\ RelayIdle!3 /\ RelayIdle!4 /\ RelayIdle!5
        /\ RelayIdle!6 /\ RelayIdle!7 /\ RelayIdle!8
        /\ CodecIdle

TunnelNext ==
    \E p \in Peers :
        \/ ConnectCall(p)
        \/ ConnectReturn(p)
        \/ TunStart(p)
        \/ IpAddr(p)
        \/ IpMtu(p)
        \/ RelayStep(p)

TunnelSpec == TunnelInit /\ [][TunnelNext]_vars

\* the relay of p has moved something, or is set up to
Relayed(p) ==
    \/ readLog[p] # <<>> \/ submitted[p] # <<>> \/ completed[p] # <<>>
    \/ recvLog[p] # <<>> \/ tapWrites[p] # <<>>

\* C14: a frame is forwarded or a payload written only after connect() has
\* returned; when connect() raises the orchestrator ends with that error and
\* tun_start never runs.
C14_RelayAfterConnect ==
    \A p \in Peers :
        /\ (Relayed(p) \/ tap[p].reader \/ recvPending[p] > 0)
              => Did(p, "connected")
        /\ Did(p, "connect_raised") =>
              /\ pc[p] = "failed" /\ err[p] = "ConnectionError"
              /\ ~Did(p, "connected")
              /\ ~TapTouched(p) /\ ~tap[p].reader /\ ~Relayed(p)

C14_Witness ==
    \E p \in Peers :
        /\ tapWrites[p] # <<>>
        /\ completed[p] # <<>>
        /\ Did(p, "connected")
        /\ Did(Other(p), "connect_raised")

\* where e first stands in q, 0 when it does not
IndexOf(q, e) ==
    IF \E i \in 1..Len(q) : q[i] = e
    THEN CHOOSE i \in 1..Len(q) : q[i] = e /\ \A j \in 1..(i - 1) : q[j] # e
    ELSE 0

\* p has sent a text that is no handshake token: a descriptor
SentDescriptor(p) == \E i \in 1..Len(sent[p]) : sent[p][i][1] = "{"

SessionText(p) == <<"SESSION", " ", remote_id(p)>>

HelloText(p) == <<"HELLO", " ", our_id(p)>>

\* C15: the offer side sends its descriptor only after it has received exactly
\* OFFER_REQUEST; the answer side sends OFFER_REQUEST only after it has sent
\* SESSION <remote_id> and received exactly SESSION_OK; the offer side sends
\* neither SESSION nor OFFER_REQUEST; no handshake token is sent twice.
C15_ReadyGatesDescriptor ==
    /\ [](/\ SentDescriptor("offer") =>
                /\ Did("offer", "recv_offer_request")
                /\ IndexOf(log["offer"], "recv_offer_request")
                      < IndexOf(log["offer"], "send_descr")
          /\ Count(sent["answer"], OFFER_REQUEST) > 0 =>
                /\ 0 < IndexOf(sent["answer"], SessionText("answer"))
                /\ IndexOf(sent["answer"], SessionText("answer"))
                      < IndexOf(sent["answer"], OFFER_REQUEST)
                /\ Did("answer", "recv_session_ok")
          /\ \A i \in 1..Len(sent["offer"]) :
                sent["offer"][i][1] # "SESSION" /\ sent["offer"][i] # OFFER_REQUEST
          /\ \A p \in Peers :
                /\ Count(sent[p], HelloText(p)) <= 1
                /\ Count(sent[p], SessionText(p)) <= 1
                /\ Count(sent[p], OFFER_REQUEST) <= 1)
    /\ [][/\ (pc["offer"] = "await_offer_request"
                /\ pc'["offer"] \notin {"await_offer_request", "failed"})
             => (toPeer["offer"] # <<>> /\ Head(toPeer["offer"]) = OFFER_REQUEST)
          /\ (Count(sent'["answer"], OFFER_REQUEST) > Count(sent["answer"], OFFER_REQUEST))
             => (toPeer["answer"] # <<>> /\ Head(toPeer["answer"]) = SESSION_OK)]_vars

C15_Witness ==
    /\ SentDescriptor("offer")
    /\ sent["offer"][1] = HelloText("offer")
    /\ Len(sent["offer"]) = 2
    /\ Len(sent["answer"]) >= 3
    /\ sent["answer"][3] = OFFER_REQUEST

\* C16: tun_reader can read the next frame whenever the tap is readable,
\* however many sendto tasks are in flight; each non-empty frame adds one task
\* to those in flight, none waits for or replaces another. (That two sends can
\* finish in the reverse of the order their frames were read is C16_Witness.)
C16_SendsNotSerialized ==
    /\ [](\A p \in Peers :
            (/\ pc[p] = "recvfrom" /\ tap[p].reader
             /\ Len(readLog[p]) < MaxReads /\ MoreRelayOps(p))
                => ENABLED TunReader(p))
    /\ [][\A p \in Peers :
            (Len(readLog'[p]) > Len(readLog[p])
                /\ readLog'[p][Len(readLog'[p])] # <<>>)
            => /\ Cardinality(tasks'[p]) = Cardinality(tasks[p]) + 1
               /\ tasks[p] \subseteq tasks'[p]
               /\ completed'[p] = completed[p]]_vars

C16_Witness ==
    \E p \in Peers :
        /\ readLog[p] = << <<1>>, <<2, 3>> >>
        /\ submitted[p][1].data = <<1>>
        /\ submitted[p][2].data = <<2, 3>>
        /\ completed[p] = <<2, 1>>
        /\ pc[p] = "recvfrom"

\* an I/O or transport error has occurred in the relay of p
RelayError(p) == err[p] # "" \/ TaskFailed(p)

\* C17: once an error has occurred on either path, nothing more is written to
\* the tap, no further send is performed (the sends in flight are dropped),
\* and the relay does not go back to relaying.
C17_FailedIsTerminal ==
    [][\A p \in Peers :
          RelayError(p) =>
              /\ tapWrites'[p] = tapWrites[p]
              /\ completed'[p] = completed[p]
              /\ pc'[p] # "recvfrom"
              /\ RelayError(p)']_vars

\* e stands in the log of p before f does
Before(p, e, f) ==
    \E i \in 1..Len(log[p]) :
        /\ log[p][i] = e
        /\ \E j \in (i + 1)..Len(log[p]) : log[p][j] = f

\* p is past close(): in connect(), in tun_start or relaying
PastSignaling(p) ==
    pc[p] \in {"connect", "connecting", "tun_start", "ip_addr", "ip_mtu",
               "recvfrom", "dying", "stopping"}

\* C18: connect() is called only after close(), and close() only after both
\* descriptors were exchanged and the remote candidates, the end marker and the
\* credentials fed; from close() on the peer has no websocket, sends nothing on
\* the signaling channel and takes nothing from it.
C18_ClosedBeforeConnect ==
    /\ [](\A p \in Peers :
            /\ Did(p, "close") =>
                  /\ Before(p, "send_descr", "close")
                  /\ Before(p, "recv_descr", "close")
                  /\ Before(p, "recv_descr", "add_end")
                  /\ Before(p, "add_end", "set_creds")
                  /\ Before(p, "set_creds", "close")
            /\ Did(p, "connect_call") => Before(p, "close", "connect_call")
            /\ PastSignaling(p) =>
                  /\ Did(p, "close")
                  /\ wsconn[p] = 0
                  /\ ~Awaiting(p))
    /\ [][\A p \in Peers :
            Did(p, "close") =>
                /\ sent'[p] = sent[p]
                /\ toServer'[p] = toServer[p] \/ toServer'[p] = Tail(toServer[p])
                /\ IsPrefix(toPeer[p], toPeer'[p])
                /\ wsconn'[p] = 0]_vars

C18_Witness ==
    /\ pc["offer"] = "recvfrom"
    /\ pc["answer"] = "connecting"
    /\ \A p \in Peers : wsconn[p] = 0 /\ released[p] = <<1>>

\* C19: no frame is read from the tap or handed to sendto before the tap is
\* up and has its address and MTU, and the exception handler is installed
\* before the first reader callback or sendto task runs.
C19_NoFrameBeforeConfigured ==
    \A p \in Peers :
        /\ (NonEmpty(readLog[p]) # <<>> \/ submitted[p] # <<>>)
              => TapConfigured(p)
        /\ (readLog[p] # <<>> \/ tasks[p] # {} \/ completed[p] # <<>>)
              => tap[p].handler

\* the Connection of p holds all that the peer o has to give: o's local
\* candidates in order, the end marker, o's username and password
HoldsAllOf(p, o) ==
    /\ conn[p].remote_candidates =
          [i \in 1..Len(local[o].candidates) |-> PyStr(local[o].candidates[i])]
             \o <<PyNone>>
    /\ conn[p].remote_username = PyStr(local[o].username)
    /\ conn[p].remote_password = PyStr(local[o].password)

\* C20: the answer side sends its descriptor only after it has fed the
\* received candidates, the end marker and the credentials into its
\* Connection; so when the offer side has received the answer's descriptor,
\* the answer side's Connection holds the offer side's candidates, the end
\* marker and the credentials. (With a server that sent a text of its own,
\* what a peer received need not be the other peer's descriptor.)
C20_AnswerFedBeforeItSends ==
    /\ SentDescriptor("answer") =>
          /\ Before("answer", "recv_descr", "add_end")
          /\ Before("answer", "add_end", "set_creds")
          /\ Before("answer", "set_creds", "send_descr")
          /\ conn["answer"].remote_candidates # <<>>
          /\ conn["answer"].remote_candidates[Len(conn["answer"].remote_candidates)]
                = PyNone
          /\ conn["answer"].remote_username = Subscript(descr["answer"], <<"username">>).val
          /\ conn["answer"].remote_password = Subscript(descr["answer"], <<"password">>).val
    /\ (injected = 0 /\ Did("offer", "recv_descr")) => HoldsAllOf("answer", "offer")

C20_Witness ==
    /\ injected = 0
    /\ Did("offer", "recv_descr")
    /\ pc["answer"] = "close"
    /\ Len(conn["answer"].remote_candidates) = 3

\* --------------------------------------------------- channel, called freely
MaxOpens == 2
MaxCloses == 3

\* websocket_connect: self.wsconn = await websockets.connect(...)
ChannelOpen(p) ==
    /\ opened[p] < MaxOpens
    /\ opened' = [opened EXCEPT ![p] = @ + 1]
    /\ wsconn' = [wsconn EXCEPT ![p] = opened[p] + 1]
    /\ released' = [released EXCEPT ![p] = Append(@, 0)]
    /\ UNCHANGED <<pc, err, closeCalls, toServer, toPeer, registered, injected,
                   local, conn, descr, items, sent, log, relayVars, codecVars>>

\* a call of close(), in whatever state the channel is
ChannelClose(p) ==
    /\ closeCalls[p] < MaxCloses
    /\ close(p)
    /\ UNCHANGED <<pc, err, opened, toServer, toPeer, registered, injected,
                   local, conn, descr, items, sent, log, relayVars, codecVars>>

ChannelNext == \E p \in Peers : ChannelOpen(p) \/ ChannelClose(p)

ChannelSpec == Init /\ [][ChannelNext]_vars

\* C10: no websocket is released more than once, and a close() leaves the
\* channel without a websocket: on a channel that has none it changes nothing,
\* so the state after several calls is the state after one.
C10_CloseIdempotent ==
    /\ [](\A p \in Peers : \A k \in 1..Len(released[p]) : released[p][k] <= 1)
    /\ [][\A p \in Peers :
            closeCalls'[p] # closeCalls[p] =>
                /\ wsconn'[p] = 0
                /\ err'[p] = ""
                /\ wsconn[p] = 0 => released'[p] = released[p]]_vars

C10_Witness ==
    /\ closeCalls["offer"] = 3
    /\ opened["offer"] = 1
    /\ released["offer"] = <<1>>
    /\ opened["answer"] = 0
    /\ closeCalls["answer"] = 2

====
